---- MODULE Spec2Model ----
(***************************************************************************)
(* memcheck_merge: scan a directory for memcheck xml reports, collect      *)
(* every 'error' element and splice them into a fixed output template.     *)
(*                                                                         *)
(* A file is a sequence of markup tokens (start tag, end tag, character    *)
(* data); character data is a sequence of units, where the unit "&amp;"    *)
(* is the escaped form of the character "&" and a bare "&" is not well     *)
(* formed.  Whitespace-only character data and attributes are left out.    *)
(* A parsed document lives in a heap of DOM nodes addressed by node id, so *)
(* that moving a node between parents is modelled as minidom does it.      *)
(***************************************************************************)
EXTENDS Integers, Sequences, FiniteSets, TLC

\* ---------------------------------------------------------------- bounds
MaxFiles == 2
MaxRuns == 2

\* ---------------------------------------------------------------- tokens
O(tag) == [k |-> "open", tag |-> tag, data |-> <<>>]
C(tag) == [k |-> "close", tag |-> tag, data |-> <<>>]
T(units) == [k |-> "text", tag |-> "", data |-> units]
El(tag, body) == <<O(tag)>> \o body \o <<C(tag)>>
Leaf(tag, s) == El(tag, <<T(<<s>>)>>)

OUTPUT_FILE_TEMPLATE ==
    El("valgrindoutput",
         Leaf("protocolversion", "4")
      \o Leaf("protocoltool", "memcheck")
      \o El("preamble",
              Leaf("line", "Memcheck, a memory error detector")
           \o Leaf("line", "Copyright (C) 2002-2015, and GNU GPL'd, by Julian Seward et al.")
           \o Leaf("line", "Using Valgrind-3.12.0 and LibVEX; rerun with -h for copyright info")
           \o Leaf("line", "Command: vce --gtest_filter=-*.CheckDebugRoutines"))
      \o Leaf("pid", "12345")
      \o Leaf("ppid", "67890")
      \o Leaf("tool", "memcheck")
      \o El("args",
              El("vargv",
                   Leaf("exe", "/ap/local/potatools/valgrind/3.12.0/bin/valgrind")
                \o Leaf("arg", "--suppressions=.config/valgrind/valgrind.suppress")
                \o Leaf("arg", "--leak-check=full")
                \o Leaf("arg", "--child-silent-after-fork=yes")
                \o Leaf("arg", "--xml=yes")
                \o Leaf("arg", "--xml-file=memcheck.xml"))
           \o El("argv",
                   Leaf("exe", "vce")
                \o Leaf("arg", "--gtest_filter=-*.CheckDebugRoutines")))
      \o El("status", Leaf("state", "RUNNING") \o Leaf("time", "00:00:00:00.000 "))
      \o El("status", Leaf("state", "FINISHED") \o Leaf("time", "00:00:00:00.000 "))
      \o El("error", <<>>)
      \o El("errorcounts", <<>>)
      \o El("suppcounts",
              El("pair", Leaf("count", "166") \o Leaf("name", "possibly_lost_in_string_alloc"))))

\* ------------------------------------------------------------- DOM heap
\* A node: type "doc" | "elem" | "text"; parent = 0 is parentNode None.
Node(type, tag, data, parent) ==
    [type |-> type, tag |-> tag, data |-> data, kids |-> <<>>, parent |-> parent]

IndexOf(s, x) == CHOOSE i \in 1..Len(s) : s[i] = x

Without(s, x) == SelectSeq(s, LAMBDA y : y # x)

InsertAt(s, i, x) == SubSeq(s, 1, i - 1) \o <<x>> \o SubSeq(s, i, Len(s))

\* expat decodes an entity reference; a bare "&" is a syntax error
Decode(u) == IF u = "&amp;" THEN "&" ELSE u

DecodeAll(units) == [i \in 1..Len(units) |-> Decode(units[i])]

HasBareAmp(units) == \E i \in 1..Len(units) : units[i] = "&"

\* minidom's _write_data: "&" is written as "&amp;"
Encode(c) == IF c = "&" THEN "&amp;" ELSE c

EncodeAll(chars) == [i \in 1..Len(chars) |-> Encode(chars[i])]

\* The expat builder on one token.  st.stack[1] is the Document node, the top
\* of the stack is the element being filled.  Any violation of
\* well-formedness raises ExpatError (ok = FALSE) and ends the parse.
ParseStep(st, t) ==
    LET h == st.heap
        stack == st.stack
        cur == stack[Len(stack)]
        n == Len(h) + 1
        last == IF h[cur].kids = <<>> THEN 0 ELSE h[cur].kids[Len(h[cur].kids)]
        fail == [st EXCEPT !.ok = FALSE]
    IN  IF ~st.ok THEN st
        ELSE CASE t.k = "open" ->
                    IF Len(stack) = 1 /\ h[cur].kids # <<>> THEN fail
                    ELSE [st EXCEPT !.heap = Append([h EXCEPT ![cur].kids = Append(@, n)],
                                                    Node("elem", t.tag, <<>>, cur)),
                                    !.stack = Append(stack, n)]
               [] t.k = "close" ->
                    IF Len(stack) = 1 \/ h[cur].tag # t.tag THEN fail
                    ELSE [st EXCEPT !.stack = SubSeq(stack, 1, Len(stack) - 1)]
               [] OTHER ->
                    IF Len(stack) = 1 \/ HasBareAmp(t.data) THEN fail
                    ELSE IF last # 0 /\ h[last].type = "text"
                    THEN [st EXCEPT !.heap = [h EXCEPT ![last].data = @ \o DecodeAll(t.data)]]
                    ELSE [st EXCEPT !.heap = Append([h EXCEPT ![cur].kids = Append(@, n)],
                                                    Node("text", "", DecodeAll(t.data), cur))]

\* The tokens lo..hi, in order (split in halves to keep the evaluation shallow)
RECURSIVE ParseRange(_, _, _, _)
ParseRange(toks, lo, hi, st) ==
    IF lo > hi THEN st
    ELSE IF lo = hi THEN ParseStep(st, toks[lo])
    ELSE LET mid == (lo + hi) \div 2
             left == ParseRange(toks, lo, mid, st)
         IN  IF left.ok THEN ParseRange(toks, mid + 1, hi, left) ELSE left

\* minidom.parse / minidom.parseString: a new Document in the heap; the
\* input must end with exactly the document element closed
Parse(h, toks) ==
    LET d == Len(h) + 1
        st == ParseRange(toks, 1, Len(toks),
                         [ok |-> TRUE, heap |-> Append(h, Node("doc", "", <<>>, 0)),
                          stack |-> <<d>>])
    IN  [ok |-> st.ok /\ Len(st.stack) = 1 /\ Len(st.heap[d].kids) = 1,
         heap |-> st.heap, doc |-> d]

\* ss[lo] \o ... \o ss[hi]
RECURSIVE Flatten(_, _, _)
Flatten(ss, lo, hi) ==
    IF lo > hi THEN <<>>
    ELSE IF lo = hi THEN ss[lo]
    ELSE LET mid == (lo + hi) \div 2
         IN  Flatten(ss, lo, mid) \o Flatten(ss, mid + 1, hi)

\* A search that looks only at the children of the document element
TopLevelElements(h, id, name) ==
    LET kids == h[h[id].kids[1]].kids
    IN  SelectSeq(kids, LAMBDA k : h[k].type = "elem" /\ h[k].tag = name)

\* Node.getElementsByTagName: descendant elements named name, in document
\* order (pre-order), the node itself excluded.
RECURSIVE getElementsByTagName(_, _, _)
getElementsByTagName(h, id, name) ==
    LET kids == h[id].kids
        below == [i \in 1..Len(kids) |->
                    (IF h[kids[i]].type = "elem" /\ h[kids[i]].tag = name
                     THEN <<kids[i]>> ELSE <<>>)
                    \o getElementsByTagName(h, kids[i], name)]
    IN  Flatten(below, 1, Len(kids))

\* Node.removeChild
removeChild(h, parent, child) ==
    [h EXCEPT ![parent].kids = Without(@, child), ![child].parent = 0]

\* Node.insertBefore: a node that has a parent is first taken out of it
insertBefore(h, parent, new, ref) ==
    LET h1 == IF h[new].parent # 0 THEN removeChild(h, h[new].parent, new) ELSE h
    IN  [h1 EXCEPT ![parent].kids = InsertAt(@, IndexOf(@, ref), new),
                   ![new].parent = parent]

\* character data written next to character data is one run of bytes
Join(a, b) ==
    IF a # <<>> /\ b # <<>> /\ a[Len(a)].k = "text" /\ b[1].k = "text"
    THEN SubSeq(a, 1, Len(a) - 1)
         \o <<T(a[Len(a)].data \o b[1].data)>>
         \o SubSeq(b, 2, Len(b))
    ELSE a \o b

RECURSIVE JoinAll(_, _, _)
JoinAll(ss, lo, hi) ==
    IF lo > hi THEN <<>>
    ELSE IF lo = hi THEN ss[lo]
    ELSE LET mid == (lo + hi) \div 2
         IN  Join(JoinAll(ss, lo, mid), JoinAll(ss, mid + 1, hi))

\* Node.writexml
RECURSIVE WriteNode(_, _)
WriteNode(h, n) ==
    IF h[n].type = "text"
    THEN IF h[n].data = <<>> THEN <<>> ELSE <<T(EncodeAll(h[n].data))>>
    ELSE LET kids == h[n].kids
             body == JoinAll([i \in 1..Len(kids) |-> WriteNode(h, kids[i])], 1, Len(kids))
         IN  IF h[n].type = "doc" THEN body
             ELSE <<O(h[n].tag)>> \o body \o <<C(h[n].tag)>>

\* Document.writexml
writexml(h, doc) == WriteNode(h, doc)


\* ---------------------------------------------------------- file system
\* A directory name is a sequence of characters.  The directories that
\* exist on disk, in normal form (no trailing slash except the root):
ROOT == <<"/">>
SRC == <<"/", "s">>
OUT == <<"/", "o">>
ExistingDirs == {ROOT, SRC, OUT}

RECURSIVE Norm(_)
Norm(p) ==
    IF Len(p) > 1 /\ p[Len(p)] = "/" THEN Norm(SubSeq(p, 1, Len(p) - 1)) ELSE p

\* os.path.exists(p) and os.path.isdir(p); the empty path names nothing
IsDir(p) == p # <<>> /\ Norm(p) \in ExistingDirs

\* clean_and_check_directory
clean_and_check_directory(dir_name) ==
    LET cleaned == IF dir_name # <<>> /\ dir_name[Len(dir_name)] = "/"
                   THEN SubSeq(dir_name, 1, Len(dir_name) - 1)
                   ELSE dir_name
    IN  <<cleaned, IsDir(cleaned)>>

\* ------------------------------------------------------- sample reports
ReportDoc(body) == El("valgrindoutput", body)

SampleContents ==
    { <<>>,                                                    \* zero length
      ReportDoc(Leaf("pid", "a")),                             \* no error
      ReportDoc(El("error", <<T(<<"b">>)>>)                    \* two errors, one
                \o El("aux", El("error", <<T(<<"&amp;">>)>>))),  \* below the top level
      ReportDoc(El("error", <<T(<<"c">>)>> \o El("error", <<T(<<"d">>)>>)
                            \o <<T(<<"e">>)>>)),               \* error inside error
      El("error", Leaf("kind", "f")),                          \* the root is an error
      <<O("valgrindoutput"), O("error"), T(<<"g">>)>> }        \* truncated report

\* A candidate matched by the glob: a regular file with its content, a
\* directory whose name ends in .xml, or a name that no longer resolves.
SampleFiles ==
    [kind : {"file"}, content : SampleContents]
    \cup {[kind |-> "dir", content |-> <<>>], [kind |-> "gone", content |-> <<>>]}

Named(f, n) == [name |-> n, kind |-> f.kind, content |-> f.content]

Directories ==
    UNION { [1..n -> SampleFiles] : n \in 0..MaxFiles }

SourceArgs == { <<"/", "s", "/">>, <<"/", "m">>, <<"/">> }
OutputArgs == { [given |-> FALSE, dir |-> <<>>],
                [given |-> TRUE, dir |-> <<"/", "o">>],
                [given |-> TRUE, dir |-> <<"/", "m">>] }
FileArgs == { [stem |-> "out", ext |-> ".xml"], [stem |-> "out", ext |-> ".txt"] }

\* ---------------------------------------------------------------- state
VARIABLES
    args,              \* command line: source_dir, output_dir, output_file
    srcfiles,          \* the candidates lying in /s, in enumeration order
    outfile,           \* the output file: [exists, content]
    outpos,            \* where the scan yields the output file, if it is a candidate
    pc,                \* "start" | "scan" | "merge" | "write" | "done" | "exited" | "crashed"
    run,               \* number of the current invocation
    source_dir,        \* cleaned source directory
    output_file,       \* [dir, name] of the output path
    valid_args,
    globbed,           \* the list glob.glob returned
    idx,               \* position of the scan loop, 0 before main is entered
    heap,              \* the DOM nodes of this process
    doc,               \* last parsed report document
    error_xml_nodes,   \* collected error nodes (node ids)
    unparsable_files,  \* names of the files that raised ExpatError
    tmpl,              \* [doc, error, parent]: output_file_template and its anchor
    midx,              \* position of the insertion loop
    summary,           \* what print_results was called with and logged
    exit,              \* exit status, -1 while running
    cause,             \* the call that raised the uncaught exception
    outBefore,         \* the output file as it was when the process started
    outCounts,         \* error elements in the output after each completed run
    staged,            \* the directory was replaced by one holding only the output
    stagedContent      \* the output document that was staged

vars == <<args, srcfiles, outfile, outpos, pc, run, source_dir, output_file,
          valid_args, globbed, idx, heap, doc, error_xml_nodes, unparsable_files,
          tmpl, midx, summary, exit, cause, outBefore, outCounts, staged,
          stagedContent>>

fsvars == <<args, srcfiles, outfile, outpos>>
ghostvars == <<outBefore, outCounts, staged, stagedContent>>

NoSummary == [e |-> 0, u |-> 0, level |-> "none", msg |-> <<>>]
NoTmpl == [doc |-> 0, error |-> 0, parent |-> 0]
Absent == [exists |-> FALSE, content |-> <<>>]

Init ==
    /\ args \in [source_dir : SourceArgs, output_dir : OutputArgs, output_file : FileArgs]
    /\ \E d \in Directories : srcfiles = [i \in DOMAIN d |-> Named(d[i], i)]
    /\ outfile = Absent
    /\ outpos = 0
    /\ pc = "start"
    /\ run = 1
    /\ source_dir = <<>>
    /\ output_file = [dir |-> <<>>, name |-> [stem |-> "", ext |-> ""]]
    /\ valid_args = TRUE
    /\ globbed = <<>>
    /\ idx = 0
    /\ heap = <<>>
    /\ doc = 0
    /\ error_xml_nodes = <<>>
    /\ unparsable_files = <<>>
    /\ tmpl = NoTmpl
    /\ midx = 0
    /\ summary = NoSummary
    /\ exit = -1
    /\ cause = "none"
    /\ outBefore = Absent
    /\ outCounts = <<>>
    /\ staged = FALSE
    /\ stagedContent = <<>>


\* -------------------------------------------------------------- program
\* print_results with the test of line 92 taken as 'no error part yet'
print_results_found(len_error_xml_nodes, len_unparsable_files) ==
    LET m0 == <<"!!!">>
        m1 == IF len_error_xml_nodes > 0
              THEN m0 \o <<" Found">>
                      \o (IF len_error_xml_nodes = 1
                          THEN <<" ", "1", " error">>
                          ELSE <<" ", ToString(len_error_xml_nodes), " errors">>)
              ELSE m0
        m2 == IF len_unparsable_files > 0
              THEN (IF m1 = m0 THEN m1 \o <<" Found">> ELSE m1 \o <<",">>)
                   \o (IF len_unparsable_files = 1
                       THEN <<" ", "1", " unparsable file">>
                       ELSE <<" ", ToString(len_unparsable_files), " unparsable files.">>)
              ELSE m1
    IN  IF m2 # <<"!!!">>
        THEN [level |-> "error", msg |-> m2]
        ELSE [level |-> "info",
              msg |-> <<"No memcheck errors or parsing issues encountered.">>]

\* print_results: the message is kept as the sequence of pieces the code
\* concatenates; ' 1 error' is the pieces " ", "1", " error".
print_results(len_error_xml_nodes, len_unparsable_files) ==
    LET m0 == <<"!!!">>
        m1 == IF len_error_xml_nodes > 0
              THEN m0 \o <<" Found">>
                      \o (IF len_error_xml_nodes = 1
                          THEN <<" ", "1", " error">>
                          ELSE <<" ", ToString(len_error_xml_nodes), " errors">>)
              ELSE m0
        m2 == IF len_unparsable_files > 0
              THEN (IF m1 = <<>> THEN m1 \o <<" Found">> ELSE m1 \o <<",">>)
                   \o (IF len_unparsable_files = 1
                       THEN <<" ", "1", " unparsable file">>
                       ELSE <<" ", ToString(len_unparsable_files), " unparsable files.">>)
              ELSE m1
    IN  IF m2 # <<"!!!">>
        THEN [level |-> "error", msg |-> m2]
        ELSE [level |-> "info",
              msg |-> <<"No memcheck errors or parsing issues encountered.">>]

\* A size test that no regular file passes as empty
st_size_never_zero(f) == IF f.kind = "dir" THEN 4096 ELSE Len(f.content) + 1

\* os.stat(f).st_size of a candidate that resolves
st_size(f) == IF f.kind = "dir" THEN 4096 ELSE Len(f.content)

\* Is the output file matched by source_dir/*.xml ?
OutputIsCandidate(sd, of, o) ==
    o.exists /\ Norm(of.dir) = Norm(sd) /\ of.name.ext = ".xml"

\* glob.glob('{}/*.xml'.format(source_dir)): the reports of /s, and the
\* output file where the enumeration yields it
glob(sd, of, files, o, pos) ==
    LET reports == IF Norm(sd) = SRC THEN files ELSE <<>>
        p == IF pos < 1 THEN 1
             ELSE IF pos > Len(reports) + 1 THEN Len(reports) + 1 ELSE pos
    IN  IF OutputIsCandidate(sd, of, o)
        THEN InsertAt(reports, p, [name |-> 0, kind |-> "file", content |-> o.content])
        ELSE reports

\* The loop body with line 141 left out: a parse failure is not recorded
ScanOneUnrecorded(f, h, d, errs, unp) ==
    LET same == [raised |-> "none", heap |-> h, doc |-> d, errs |-> errs, unp |-> unp]
    IN  IF f.kind = "gone" THEN [same EXCEPT !.raised = "os.stat"]
        ELSE IF st_size(f) = 0 THEN same
        ELSE IF f.kind = "dir" THEN [same EXCEPT !.raised = "open"]
        ELSE LET r == Parse(h, f.content)
             IN  IF r.ok
                 THEN [same EXCEPT !.heap = r.heap, !.doc = r.doc,
                                   !.errs = errs \o getElementsByTagName(r.heap, r.doc, "error")]
                 ELSE same

\* One pass of the loop body of main, lines 127-141, on candidate f.
\* raised = "none": the loop goes on; otherwise the exception is not caught.
ScanOne(f, h, d, errs, unp) ==
    LET same == [raised |-> "none", heap |-> h, doc |-> d, errs |-> errs, unp |-> unp]
    IN  IF f.kind = "gone" THEN [same EXCEPT !.raised = "os.stat"]
        ELSE IF st_size(f) = 0 THEN same
        ELSE IF f.kind = "dir" THEN [same EXCEPT !.raised = "open"]
        ELSE LET r == Parse(h, f.content)
             IN  IF r.ok
                 THEN [same EXCEPT !.heap = r.heap, !.doc = r.doc,
                                   !.errs = errs \o getElementsByTagName(r.heap, r.doc, "error")]
                 ELSE [same EXCEPT !.unp = Append(unp, f.name)]

\* The __main__ block: check both directories, then enter main (up to the
\* evaluation of glob.glob) or sys.exit(1).
Start ==
    /\ pc = "start"
    /\ LET src == clean_and_check_directory(args.source_dir)
           od == IF args.output_dir.given THEN args.output_dir.dir ELSE src[1]
           out == clean_and_check_directory(od)
           valid == src[2] /\ out[2]
           of == [dir |-> od, name |-> args.output_file]
       IN  /\ source_dir' = src[1]
           /\ output_file' = of
           /\ valid_args' = valid
           /\ IF valid
              THEN /\ pc' = "scan"
                   /\ globbed' = glob(src[1], of, srcfiles, outfile, outpos)
                   /\ idx' = 1
                   /\ exit' = -1
              ELSE /\ pc' = "exited"
                   /\ globbed' = <<>>
                   /\ idx' = 0
                   /\ exit' = 1
    /\ outBefore' = outfile
    /\ UNCHANGED <<fsvars, run, heap, doc, error_xml_nodes, unparsable_files, tmpl,
                   midx, summary, cause, outCounts, staged, stagedContent>>

\* main, lines 127-141: one candidate of the scan
ScanFile ==
    /\ pc = "scan"
    /\ idx <= Len(globbed)
    /\ LET r == ScanOne(globbed[idx], heap, doc, error_xml_nodes, unparsable_files)
       IN  /\ heap' = r.heap
           /\ doc' = r.doc
           /\ error_xml_nodes' = r.errs
           /\ unparsable_files' = r.unp
           /\ IF r.raised = "none"
              THEN /\ idx' = idx + 1
                   /\ UNCHANGED <<pc, exit, cause>>
              ELSE /\ pc' = "crashed"
                   /\ exit' = 1
                   /\ cause' = r.raised
                   /\ UNCHANGED idx
    /\ UNCHANGED <<fsvars, run, source_dir, output_file, valid_args, globbed, tmpl,
                   midx, summary, ghostvars>>

\* main, lines 143-150: the summary, then the template and its anchor
Summarise ==
    /\ pc = "scan"
    /\ idx > Len(globbed)
    /\ LET e == Len(error_xml_nodes)
           u == Len(unparsable_files)
           m == print_results(e, u)
           t == Parse(heap, OUTPUT_FILE_TEMPLATE)
           anchor == getElementsByTagName(t.heap, t.doc, "error")[1]
       IN  /\ summary' = [e |-> e, u |-> u, level |-> m.level, msg |-> m.msg]
           /\ heap' = t.heap
           /\ tmpl' = [doc |-> t.doc, error |-> anchor, parent |-> t.heap[anchor].parent]
    /\ midx' = 1
    /\ pc' = "merge"
    /\ UNCHANGED <<fsvars, run, source_dir, output_file, valid_args, globbed, idx, doc,
                   error_xml_nodes, unparsable_files, exit, cause, ghostvars>>

\* Line 154 with an append in place of the insertion before the anchor
InsertAtEnd(h, t, node) ==
    LET h1 == IF h[node].parent # 0 THEN removeChild(h, h[node].parent, node) ELSE h
    IN  [h1 EXCEPT ![t.parent].kids = Append(@, node), ![node].parent = t.parent]

\* main, line 154: parent_node.insertBefore(error_xml_node, template_error_node)
InsertBeforeAnchor(h, t, node) == insertBefore(h, t.parent, node, t.error)

\* main, lines 151-154: one collected node is put before the anchor
InsertError ==
    /\ pc = "merge"
    /\ midx <= Len(error_xml_nodes)
    /\ heap' = InsertBeforeAnchor(heap, tmpl, error_xml_nodes[midx])
    /\ midx' = midx + 1
    /\ UNCHANGED <<fsvars, pc, run, source_dir, output_file, valid_args, globbed, idx,
                   doc, error_xml_nodes, unparsable_files, tmpl, summary, exit, cause,
                   ghostvars>>

\* Line 156 left out: the anchor stays in the document
KeepAnchor(h, t) == h

\* main, lines 155-156: the anchor is taken out
RemoveAnchor(h, t) == removeChild(h, t.parent, t.error)

RemovePlaceholder ==
    /\ pc = "merge"
    /\ midx > Len(error_xml_nodes)
    /\ heap' = RemoveAnchor(heap, tmpl)
    /\ pc' = "write"
    /\ UNCHANGED <<fsvars, run, source_dir, output_file, valid_args, globbed, idx, doc,
                   error_xml_nodes, unparsable_files, tmpl, midx, summary, exit, cause,
                   ghostvars>>

CountErrors(toks) == Cardinality({i \in 1..Len(toks) : toks[i] = O("error")})

\* main, lines 159-162.  open(output_file, 'wb') may raise (no permission);
\* once it has truncated the file, writexml may raise (the file object does
\* not take what the writer hands it); both exceptions are uncaught.
WriteOutput ==
    /\ pc = "write"
    /\ \E outcome \in {"written", "open", "write"} :
         CASE outcome = "written" ->
                /\ outfile' = [exists |-> TRUE, content |-> writexml(heap, tmpl.doc)]
                /\ pc' = "done"
                /\ exit' = 0
                /\ cause' = cause
                /\ outCounts' = Append(outCounts, CountErrors(outfile'.content))
           [] outcome = "open" ->
                /\ outfile' = outfile
                /\ pc' = "crashed"
                /\ exit' = 1
                /\ cause' = "open output"
                /\ outCounts' = outCounts
           [] OTHER ->
                /\ outfile' = [exists |-> TRUE, content |-> <<>>]
                /\ pc' = "crashed"
                /\ exit' = 1
                /\ cause' = "writexml"
                /\ outCounts' = outCounts
    /\ IF outfile.exists \/ ~OutputIsCandidate(source_dir, output_file, outfile')
       THEN outpos' = outpos
       ELSE outpos' \in 1..(Len(srcfiles) + 1)
    /\ UNCHANGED <<args, srcfiles, run, source_dir, output_file, valid_args, globbed,
                   idx, heap, doc, error_xml_nodes, unparsable_files, tmpl, midx,
                   summary, outBefore, staged, stagedContent>>

Finished == pc \in {"done", "exited", "crashed"}

ResetProcess ==
    /\ pc' = "start"
    /\ run' = run + 1
    /\ source_dir' = <<>>
    /\ output_file' = [dir |-> <<>>, name |-> [stem |-> "", ext |-> ""]]
    /\ valid_args' = TRUE
    /\ globbed' = <<>>
    /\ idx' = 0
    /\ heap' = <<>>
    /\ doc' = 0
    /\ error_xml_nodes' = <<>>
    /\ unparsable_files' = <<>>
    /\ tmpl' = NoTmpl
    /\ midx' = 0
    /\ summary' = NoSummary
    /\ exit' = -1
    /\ cause' = "none"

\* The program is invoked again on the same directory with the same arguments.
RunAgain ==
    /\ Finished
    /\ run < MaxRuns
    /\ ResetProcess
    /\ UNCHANGED <<fsvars, ghostvars>>

\* The program is invoked again after the source directory was replaced by one
\* whose only candidate is the output document of the run that just completed.
RunOnOutput ==
    /\ pc = "done"
    /\ run < MaxRuns
    /\ ~staged
    /\ ResetProcess
    /\ srcfiles' = IF OutputIsCandidate(source_dir, output_file, outfile)
                   THEN <<>>
                   ELSE <<[name |-> 1, kind |-> "file", content |-> outfile.content]>>
    /\ outpos' = 1
    /\ staged' = TRUE
    /\ stagedContent' = outfile.content
    /\ UNCHANGED <<args, outfile, outBefore, outCounts>>

Next ==
    \/ Start
    \/ ScanFile
    \/ Summarise
    \/ InsertError
    \/ RemovePlaceholder
    \/ WriteOutput
    \/ RunAgain
    \/ RunOnOutput

Spec == Init /\ [][Next]_vars

TypeOK ==
    /\ pc \in {"start", "scan", "merge", "write", "done", "exited", "crashed"}
    /\ run \in 1..MaxRuns
    /\ exit \in {-1, 0, 1}


\* ------------------------------------------------- reading a file as text
\* What the claims say about files is stated on the tokens of the files,
\* independently of the DOM operations above.
IsOpen(t) == t.k = "open"
IsClose(t) == t.k = "close"

\* number of elements open just before token i
DepthBefore(toks, i) ==
    Cardinality({j \in 1..(i - 1) : IsOpen(toks[j])})
    - Cardinality({j \in 1..(i - 1) : IsClose(toks[j])})

\* the end tag that closes the start tag at i
MatchClose(toks, i) ==
    LET d == DepthBefore(toks, i)
        ends == {j \in (i + 1)..Len(toks) : DepthBefore(toks, j + 1) = d}
    IN  CHOOSE j \in ends : \A k \in ends : j <= k

\* One token of a well-formedness check that keeps only the names of the
\* open elements: one document element, tags properly nested, character
\* data only inside the document element and without a bare "&".
WfStep(st, t) ==
    LET fail == [st EXCEPT !.ok = FALSE]
    IN  IF ~st.ok THEN st
        ELSE CASE IsOpen(t) ->
                    IF st.seen /\ st.tags = <<>> THEN fail
                    ELSE [st EXCEPT !.tags = Append(@, t.tag), !.seen = TRUE]
               [] IsClose(t) ->
                    IF st.tags = <<>> \/ st.tags[Len(st.tags)] # t.tag THEN fail
                    ELSE [st EXCEPT !.tags = SubSeq(@, 1, Len(@) - 1)]
               [] OTHER ->
                    IF st.tags = <<>> \/ HasBareAmp(t.data) THEN fail ELSE st

RECURSIVE WfRange(_, _, _, _)
WfRange(toks, lo, hi, st) ==
    IF lo > hi THEN st
    ELSE IF lo = hi THEN WfStep(st, toks[lo])
    ELSE LET mid == (lo + hi) \div 2
             left == WfRange(toks, lo, mid, st)
         IN  IF left.ok THEN WfRange(toks, mid + 1, hi, left) ELSE left

WellFormed(toks) ==
    LET st == WfRange(toks, 1, Len(toks), [ok |-> TRUE, tags |-> <<>>, seen |-> FALSE])
    IN  st.ok /\ st.seen /\ st.tags = <<>>

SortedSeq(S) ==
    [r \in 1..Cardinality(S) |-> CHOOSE i \in S : Cardinality({x \in S : x < i}) = r - 1]

\* the 'error' elements of a well-formed file, each from its start tag to
\* its end tag, in document order
ErrorSpans(toks) ==
    LET starts == SortedSeq({i \in 1..Len(toks) : toks[i] = O("error")})
    IN  [r \in 1..Len(starts) |-> SubSeq(toks, starts[r], MatchClose(toks, starts[r]))]

\* number of 'error' elements open just before token i
ErrDepthBefore(toks, i) ==
    Cardinality({j \in 1..(i - 1) : toks[j] = O("error")})
    - Cardinality({j \in 1..(i - 1) : toks[j] = C("error")})

\* an 'error' element without the 'error' elements inside it
OwnContent(span) ==
    LET keep == {i \in 1..Len(span) :
                    ErrDepthBefore(span, i) = (IF span[i] = O("error") THEN 0 ELSE 1)}
        idx1 == SortedSeq(keep)
    IN  JoinAll([r \in 1..Len(idx1) |-> <<span[idx1[r]]>>], 1, Len(idx1))

Parsable(f) == f.kind = "file" /\ f.content # <<>> /\ WellFormed(f.content)

\* the 'error' elements of the parsable candidates, file after file
ErrorsOf(files) ==
    Flatten([i \in 1..Len(files) |->
                IF Parsable(files[i]) THEN ErrorSpans(files[i].content) ELSE <<>>],
            1, Len(files))

RECURSIVE TotalErrors(_)
TotalErrors(files) ==
    IF files = <<>> THEN 0
    ELSE (IF Parsable(Head(files)) THEN CountErrors(Head(files).content) ELSE 0)
         + TotalErrors(Tail(files))

\* ---------------------------------------------------------------- claims

\* C1: when main has written the output, the output holds exactly as many
\* 'error' elements as the parsable non-empty candidates hold in total, and
\* they stand in the order of the scan, within one file in document order
\* (each record identified by the content that is its own).
C1_CountAndOrder ==
    pc = "done" =>
        LET got == ErrorSpans(outfile.content)
            want == ErrorsOf(globbed)
        IN  /\ Len(got) = TotalErrors(globbed)
            /\ [r \in 1..Len(got) |-> OwnContent(got[r])]
               = [r \in 1..Len(want) |-> OwnContent(want[r])]

C1_Witness ==
    /\ pc = "done"
    /\ CountErrors(outfile.content) >= 4
    /\ \E i, j \in 1..Len(globbed) :
         /\ i < j
         /\ Parsable(globbed[i]) /\ Parsable(globbed[j])
         /\ CountErrors(globbed[i].content) = 2 /\ CountErrors(globbed[j].content) = 2
         /\ globbed[i].content # globbed[j].content

\* C2 (as claimed): every error record of the output has exactly the content
\* it had in its source file, also when an 'error' element lies inside
\* another 'error' element.
C2_ContentPreserved ==
    pc = "done" => ErrorSpans(outfile.content) = ErrorsOf(globbed)


\* C3: after the merge step the placeholder is gone from the output
\* document, the collected records are consecutive children of its parent
\* at the place where it stood, and every other element of the scaffold has
\* the content and the place the template gives it.
TemplateDoc == Parse(<<>>, OUTPUT_FILE_TEMPLATE)
TemplateKids == TemplateDoc.heap[TemplateDoc.heap[TemplateDoc.doc].kids[1]].kids
AnchorPos == CHOOSE i \in 1..Len(TemplateKids) : TemplateDoc.heap[TemplateKids[i]].tag = "error"

RECURSIVE Subtree(_, _)
Subtree(h, n) ==
    [type |-> h[n].type, tag |-> h[n].tag, data |-> h[n].data,
     kids |-> [i \in 1..Len(h[n].kids) |-> Subtree(h, h[n].kids[i])]]

RECURSIVE NodesBelow(_, _)
NodesBelow(h, n) ==
    {n} \cup UNION {NodesBelow(h, h[n].kids[i]) : i \in 1..Len(h[n].kids)}

C3_PlaceholderReplaced ==
    pc \in {"write", "done"} =>
        LET kids == heap[tmpl.parent].kids
            K == Len(error_xml_nodes)
        IN  /\ heap[tmpl.doc].kids = <<tmpl.parent>>
            /\ heap[tmpl.parent].tag = "valgrindoutput"
            /\ tmpl.error \notin NodesBelow(heap, tmpl.doc)
            /\ Len(kids) = Len(TemplateKids) - 1 + K
            /\ SubSeq(kids, AnchorPos, AnchorPos + K - 1) = error_xml_nodes
            /\ \A i \in 1..(AnchorPos - 1) :
                 Subtree(heap, kids[i]) = Subtree(TemplateDoc.heap, TemplateKids[i])
            /\ \A i \in (AnchorPos + 1)..Len(TemplateKids) :
                 Subtree(heap, kids[i + K - 1]) = Subtree(TemplateDoc.heap, TemplateKids[i])

C3_Witness ==
    /\ pc = "write"
    /\ Len(error_xml_nodes) >= 3
    /\ \E i \in 1..Len(globbed) :
         Parsable(globbed[i]) /\ \E k \in 1..Len(globbed[i].content) :
            globbed[i].content[k] = O("error") /\ ErrDepthBefore(globbed[i].content, k) = 1

\* C4 (as claimed): no failure on a single candidate ends the run; the
\* process is ended by an exception only when the output cannot be written.
C4_OnlyWriteFailureTerminates ==
    pc = "crashed" => cause \in {"open output", "writexml"}

\* C5: a non-empty candidate that fails to parse is in the unparsable list
\* exactly once and adds no error record, and the candidates after it are
\* scanned: at every point the list is the malformed files among the
\* candidates handled so far, the collected records are those of the
\* parsable ones, and the scan is never ended at a malformed file.
Malformed(f) == f.kind = "file" /\ f.content # <<>> /\ ~WellFormed(f.content)

Handled ==
    IF pc = "scan" \/ (pc = "crashed" /\ cause \in {"os.stat", "open"})
    THEN SubSeq(globbed, 1, idx - 1)
    ELSE globbed

C5_UnparsableRecordedScanContinues ==
    pc \in {"scan", "merge", "write", "done", "crashed"} =>
        LET bad == SelectSeq(Handled, Malformed)
        IN  /\ unparsable_files = [i \in 1..Len(bad) |-> bad[i].name]
            /\ Len(error_xml_nodes) = TotalErrors(Handled)
            /\ (pc = "crashed" /\ cause \in {"os.stat", "open"}) => ~Malformed(globbed[idx])

C5_Witness ==
    /\ pc = "merge"
    /\ \E i, j \in 1..Len(globbed) :
         /\ i < j
         /\ Malformed(globbed[i])
         /\ Parsable(globbed[j]) /\ CountErrors(globbed[j].content) > 0
    /\ Len(unparsable_files) = 1
    /\ Len(error_xml_nodes) > 0

\* C6: a zero-length candidate leaves the collected errors and the
\* unparsable list as they are, so the counts given to print_results are
\* those of the directory without its zero-length files.
ZeroLength(f) == f.kind = "file" /\ f.content = <<>>

NotZeroLength(f) == ~ZeroLength(f)

\* the files that minidom.parse would refuse
RefusedCount(files) ==
    Cardinality({i \in 1..Len(files) :
                    files[i].kind = "file" /\ ~WellFormed(files[i].content)})

C6_ZeroLengthIgnored ==
    /\ [](summary.level # "none" =>
            /\ summary.e = TotalErrors(SelectSeq(globbed, NotZeroLength))
            /\ summary.u = RefusedCount(SelectSeq(globbed, NotZeroLength)))
    /\ [][(pc = "scan" /\ idx <= Len(globbed) /\ ZeroLength(globbed[idx])) =>
            /\ error_xml_nodes' = error_xml_nodes
            /\ unparsable_files' = unparsable_files
            /\ pc' = "scan" /\ idx' = idx + 1]_vars

C6_Witness ==
    /\ pc = "merge"
    /\ \E i \in 1..Len(globbed) : ZeroLength(globbed[i])
    /\ summary.e > 0

\* C7: print_results logs the informational message exactly when both
\* counts are zero; otherwise one error message that names the error count
\* exactly when it is positive and the unparsable count exactly when it is
\* positive, singular for a count of one, and the part about unparsable
\* files reads the same whether or not an error part stands before it.
ErrorPart(e) ==
    IF e = 0 THEN <<>>
    ELSE <<" Found", " ", ToString(e), IF e = 1 THEN " error" ELSE " errors">>

UnparsablePart(u) ==
    IF u = 0 THEN <<>>
    ELSE <<",", " ", ToString(u),
           IF u = 1 THEN " unparsable file" ELSE " unparsable files.">>

C7_SummaryWording ==
    summary.level # "none" =>
        /\ summary.e = Len(error_xml_nodes) /\ summary.u = Len(unparsable_files)
        /\ summary.level = "info" <=> (summary.e = 0 /\ summary.u = 0)
        /\ summary.level = "info" =>
             summary.msg = <<"No memcheck errors or parsing issues encountered.">>
        /\ summary.level # "info" =>
             /\ summary.level = "error"
             /\ summary.msg = <<"!!!">> \o ErrorPart(summary.e) \o UnparsablePart(summary.u)

C7_Witness ==
    /\ summary.level = "error"
    /\ summary.e = 0
    /\ summary.u = 2

\* C8 (as claimed): a missing source or output directory gives a non-zero
\* exit with nothing scanned and the output file untouched; when both
\* directories exist the exit status is 0.
NamedOutputDir == IF args.output_dir.given THEN args.output_dir.dir ELSE args.source_dir

C8_ExitStatus ==
    Finished =>
        IF Norm(args.source_dir) \in ExistingDirs /\ Norm(NamedOutputDir) \in ExistingDirs
        THEN exit = 0
        ELSE exit = 1 /\ idx = 0 /\ outfile = outBefore

\* C9: when the only candidate is an output document that main produced,
\* the output of that run is the same document (records and scaffold).
OnlyCandidateIsStaged ==
    /\ staged
    /\ Len(globbed) = 1
    /\ globbed[1].kind = "file"
    /\ globbed[1].content = stagedContent

C9_MergeIdempotent ==
    (pc = "done" /\ OnlyCandidateIsStaged) =>
        /\ outfile.content = stagedContent
        /\ summary.e = CountErrors(stagedContent)
        /\ summary.u = 0

C9_Witness ==
    /\ pc = "done"
    /\ OnlyCandidateIsStaged
    /\ CountErrors(stagedContent) >= 3

\* C10 (as claimed): every completed run over the same report files leaves
\* the same number of error elements in the output.
C10_RepeatedRunsAgree ==
    ~staged => \A i \in 1..Len(outCounts) : outCounts[i] = outCounts[1]

====
